---------------------------- MODULE Spec2Model ----------------------------
(***************************************************************************)
(* Atari Slapstic bank-switching chip (src/mame/machine/slapstic.cpp).     *)
(*                                                                         *)
(* The model follows atari_slapstic_device: the per-chip parameter tables, *)
(* slapstic_init / slapstic_reset, slapstic_bank, alt2_kludge and the      *)
(* per-access state machine slapstic_tweak.  One device instance is        *)
(* modelled; its chip number and its 68k flag are fixed at construction.   *)
(***************************************************************************)
EXTENDS Integers, Naturals, Sequences, FiniteSets, TLC

(***************************************************************************)
(* C integer operators on non-negative values.  The chip sees 14 address   *)
(* lines (A0-A13); every value handled below fits 24 bits, so no operator  *)
(* here can overflow the 32-bit offs_t / int of the source.                *)
(***************************************************************************)
Nibble == 0 .. 15

RECURSIVE AndBits(_, _, _)
AndBits(x, y, n) ==
    IF n = 0 THEN 0
    ELSE ((x % 2) * (y % 2)) + 2 * AndBits(x \div 2, y \div 2, n - 1)

RECURSIVE XorBits(_, _, _)
XorBits(x, y, n) ==
    IF n = 0 THEN 0
    ELSE (((x % 2) + (y % 2)) % 2) + 2 * XorBits(x \div 2, y \div 2, n - 1)

And4 == [x \in Nibble |-> [y \in Nibble |-> AndBits(x, y, 4)]]

Xor4 == [x \in Nibble |-> [y \in Nibble |-> XorBits(x, y, 4)]]

\* x & y
RECURSIVE BitAnd(_, _)
BitAnd(x, y) ==
    IF x = 0 \/ y = 0 THEN 0
    ELSE And4[x % 16][y % 16] + 16 * BitAnd(x \div 16, y \div 16)

\* x ^ y
RECURSIVE BitXor(_, _)
BitXor(x, y) ==
    IF x = 0 THEN y
    ELSE IF y = 0 THEN x
    ELSE Xor4[x % 16][y % 16] + 16 * BitXor(x \div 16, y \div 16)

\* x | y
BitOr(x, y) == x + y - BitAnd(x, y)

\* x & ~y
BitClear(x, y) == x - BitAnd(x, y)

\* x >> n
ShiftRight(x, n) == x \div (2 ^ n)

\* x << n
ShiftLeft(x, n) == x * (2 ^ n)

(***************************************************************************)
(* Declarations of includes/slapstic.h: the mask/value pair, the matcher,  *)
(* the "absent family" table entries and the value standing for a target   *)
(* that was never determined.  An absent pair has an all-zero mask and the *)
(* matcher never matches it.                                               *)
(***************************************************************************)
MaskValue(m, v) == [mask |-> m, value |-> v]

UNKNOWN == \Hffff

NO_PAIR == MaskValue(0, 0)

NO_BITWISE ==
    [bit1   |-> NO_PAIR, bit2c0 |-> NO_PAIR, bit2s0 |-> NO_PAIR,
     bit2c1 |-> NO_PAIR, bit2s1 |-> NO_PAIR, bit3   |-> NO_PAIR]

NO_ADDITIVE ==
    [add1     |-> NO_PAIR, add2     |-> NO_PAIR, addplus1 |-> NO_PAIR,
     addplus2 |-> NO_PAIR, add3     |-> NO_PAIR]

MATCHES_MASK_VALUE(val, maskval) ==
    /\ maskval.mask # 0
    /\ BitAnd(val, maskval.mask) = maskval.value

\* int bank[4], indexed 0..3
Bank4(b0, b1, b2, b3) == [i \in 0 .. 3 |-> <<b0, b1, b2, b3>>[i + 1]]

(***************************************************************************)
(* Slapstic definitions: one record per chip, numbers as in the source.    *)
(***************************************************************************)
slapstic101 ==
    [bankstart |-> 3,
     bank      |-> Bank4(\H0080, \H0090, \H00a0, \H00b0),
     alt1      |-> MaskValue(\H007f, UNKNOWN),
     alt2      |-> MaskValue(\H1fff, \H1dff),
     alt3      |-> MaskValue(\H1ffc, \H1b5c),
     alt4      |-> MaskValue(\H1fcf, \H0080),
     altshift  |-> 0]
    @@ [bit1      |-> MaskValue(\H1ff0, \H1540),
        bit2c0    |-> MaskValue(\H1ff3, \H1540),
        bit2s0    |-> MaskValue(\H1ff3, \H1541),
        bit2c1    |-> MaskValue(\H1ff3, \H1542),
        bit2s1    |-> MaskValue(\H1ff3, \H1543),
        bit3      |-> MaskValue(\H1ff8, \H1550)]
    @@ NO_ADDITIVE

slapstic103 ==
    [bankstart |-> 3,
     bank      |-> Bank4(\H0040, \H0050, \H0060, \H0070),
     alt1      |-> MaskValue(\H007f, \H002d),
     alt2      |-> MaskValue(\H3fff, \H3d14),
     alt3      |-> MaskValue(\H3ffc, \H3d24),
     alt4      |-> MaskValue(\H3fcf, \H0040),
     altshift  |-> 0]
    @@ [bit1      |-> MaskValue(\H3ff0, \H34c0),
        bit2c0    |-> MaskValue(\H3ff3, \H34c0),
        bit2s0    |-> MaskValue(\H3ff3, \H34c1),
        bit2c1    |-> MaskValue(\H3ff3, \H34c2),
        bit2s1    |-> MaskValue(\H3ff3, \H34c3),
        bit3      |-> MaskValue(\H3ff8, \H34d0)]
    @@ NO_ADDITIVE

\* variant: the second bank select value repeats the first
slapstic104_repeated_bank ==
    [bankstart |-> 3,
     bank      |-> Bank4(\H0020, \H0020, \H0030, \H0038),
     alt1      |-> MaskValue(\H007f, \H0069),
     alt2      |-> MaskValue(\H3fff, \H3735),
     alt3      |-> MaskValue(\H3ffc, \H3764),
     alt4      |-> MaskValue(\H3fe7, \H0020),
     altshift  |-> 0]
    @@ [bit1      |-> MaskValue(\H3ff0, \H3d90),
        bit2c0    |-> MaskValue(\H3ff3, \H3d90),
        bit2s0    |-> MaskValue(\H3ff3, \H3d91),
        bit2c1    |-> MaskValue(\H3ff3, \H3d92),
        bit2s1    |-> MaskValue(\H3ff3, \H3d93),
        bit3      |-> MaskValue(\H3ff8, \H3da0)]
    @@ NO_ADDITIVE

slapstic104 ==
    [bankstart |-> 3,
     bank      |-> Bank4(\H0020, \H0028, \H0030, \H0038),
     alt1      |-> MaskValue(\H007f, \H0069),
     alt2      |-> MaskValue(\H3fff, \H3735),
     alt3      |-> MaskValue(\H3ffc, \H3764),
     alt4      |-> MaskValue(\H3fe7, \H0020),
     altshift  |-> 0]
    @@ [bit1      |-> MaskValue(\H3ff0, \H3d90),
        bit2c0    |-> MaskValue(\H3ff3, \H3d90),
        bit2s0    |-> MaskValue(\H3ff3, \H3d91),
        bit2c1    |-> MaskValue(\H3ff3, \H3d92),
        bit2s1    |-> MaskValue(\H3ff3, \H3d93),
        bit3      |-> MaskValue(\H3ff8, \H3da0)]
    @@ NO_ADDITIVE

slapstic105 ==
    [bankstart |-> 3,
     bank      |-> Bank4(\H0010, \H0014, \H0018, \H001c),
     alt1      |-> MaskValue(\H007f, \H003d),
     alt2      |-> MaskValue(\H3fff, \H0092),
     alt3      |-> MaskValue(\H3ffc, \H00a4),
     alt4      |-> MaskValue(\H3ff3, \H0010),
     altshift  |-> 0]
    @@ [bit1      |-> MaskValue(\H3ff0, \H35b0),
        bit2c0    |-> MaskValue(\H3ff3, \H35b0),
        bit2s0    |-> MaskValue(\H3ff3, \H35b1),
        bit2c1    |-> MaskValue(\H3ff3, \H35b2),
        bit2s1    |-> MaskValue(\H3ff3, \H35b3),
        bit3      |-> MaskValue(\H3ff8, \H35c0)]
    @@ NO_ADDITIVE

slapstic106 ==
    [bankstart |-> 3,
     bank      |-> Bank4(\H0008, \H000a, \H000c, \H000e),
     alt1      |-> MaskValue(\H007f, \H002b),
     alt2      |-> MaskValue(\H3fff, \H0052),
     alt3      |-> MaskValue(\H3ffc, \H0064),
     alt4      |-> MaskValue(\H3ff9, \H0008),
     altshift  |-> 0]
    @@ [bit1      |-> MaskValue(\H3ff0, \H3da0),
        bit2c0    |-> MaskValue(\H3ff3, \H3da0),
        bit2s0    |-> MaskValue(\H3ff3, \H3da1),
        bit2c1    |-> MaskValue(\H3ff3, \H3da2),
        bit2s1    |-> MaskValue(\H3ff3, \H3da3),
        bit3      |-> MaskValue(\H3ff8, \H3db0)]
    @@ NO_ADDITIVE

slapstic107 ==
    [bankstart |-> 3,
     bank      |-> Bank4(\H0018, \H001a, \H001c, \H001e),
     alt1      |-> MaskValue(\H007f, \H006b),
     alt2      |-> MaskValue(\H3fff, \H3d52),
     alt3      |-> MaskValue(\H3ffc, \H3d64),
     alt4      |-> MaskValue(\H3ff9, \H0018),
     altshift  |-> 0]
    @@ [bit1      |-> MaskValue(\H3ff0, \H00a0),
        bit2c0    |-> MaskValue(\H3ff3, \H00a0),
        bit2s0    |-> MaskValue(\H3ff3, \H00a1),
        bit2c1    |-> MaskValue(\H3ff3, \H00a2),
        bit2s1    |-> MaskValue(\H3ff3, \H00a3),
        bit3      |-> MaskValue(\H3ff8, \H00b0)]
    @@ NO_ADDITIVE

slapstic108 ==
    [bankstart |-> 3,
     bank      |-> Bank4(\H0028, \H002a, \H002c, \H002e),
     alt1      |-> MaskValue(\H007f, \H001f),
     alt2      |-> MaskValue(\H3fff, \H3772),
     alt3      |-> MaskValue(\H3ffc, \H3764),
     alt4      |-> MaskValue(\H3ff9, \H0028),
     altshift  |-> 0]
    @@ [bit1      |-> MaskValue(\H3ff0, \H0060),
        bit2c0    |-> MaskValue(\H3ff3, \H0060),
        bit2s0    |-> MaskValue(\H3ff3, \H0061),
        bit2c1    |-> MaskValue(\H3ff3, \H0062),
        bit2s1    |-> MaskValue(\H3ff3, \H0063),
        bit3      |-> MaskValue(\H3ff8, \H0070)]
    @@ NO_ADDITIVE

slapstic109 ==
    [bankstart |-> 3,
     bank      |-> Bank4(\H0008, \H000a, \H000c, \H000e),
     alt1      |-> MaskValue(\H007f, \H002b),
     alt2      |-> MaskValue(\H3fff, \H0052),
     alt3      |-> MaskValue(\H3ffc, \H0064),
     alt4      |-> MaskValue(\H3ff9, \H0008),
     altshift  |-> 0]
    @@ [bit1      |-> MaskValue(\H3ff0, \H3da0),
        bit2c0    |-> MaskValue(\H3ff3, \H3da0),
        bit2s0    |-> MaskValue(\H3ff3, \H3da1),
        bit2c1    |-> MaskValue(\H3ff3, \H3da2),
        bit2s1    |-> MaskValue(\H3ff3, \H3da3),
        bit3      |-> MaskValue(\H3ff8, \H3db0)]
    @@ NO_ADDITIVE

\* variant: the bitwise offsets are those of another part
slapstic110_other_bitwise ==
    [bankstart |-> 3,
     bank      |-> Bank4(\H0040, \H0050, \H0060, \H0070),
     alt1      |-> MaskValue(\H007f, \H002d),
     alt2      |-> MaskValue(\H3fff, \H3d14),
     alt3      |-> MaskValue(\H3ffc, \H3d24),
     alt4      |-> MaskValue(\H3fcf, \H0040),
     altshift  |-> 0]
    @@ [bit1      |-> MaskValue(\H3ff0, \H3da0),
        bit2c0    |-> MaskValue(\H3ff3, \H3da0),
        bit2s0    |-> MaskValue(\H3ff3, \H3da1),
        bit2c1    |-> MaskValue(\H3ff3, \H3da2),
        bit2s1    |-> MaskValue(\H3ff3, \H3da3),
        bit3      |-> MaskValue(\H3ff8, \H3db0)]
    @@ NO_ADDITIVE

slapstic110 ==
    [bankstart |-> 3,
     bank      |-> Bank4(\H0040, \H0050, \H0060, \H0070),
     alt1      |-> MaskValue(\H007f, \H002d),
     alt2      |-> MaskValue(\H3fff, \H3d14),
     alt3      |-> MaskValue(\H3ffc, \H3d24),
     alt4      |-> MaskValue(\H3fcf, \H0040),
     altshift  |-> 0]
    @@ [bit1      |-> MaskValue(\H3ff0, \H34c0),
        bit2c0    |-> MaskValue(\H3ff3, \H34c0),
        bit2s0    |-> MaskValue(\H3ff3, \H34c1),
        bit2c1    |-> MaskValue(\H3ff3, \H34c2),
        bit2s1    |-> MaskValue(\H3ff3, \H34c3),
        bit3      |-> MaskValue(\H3ff8, \H34d0)]
    @@ NO_ADDITIVE

\* variant: the bitwise entries of the previous table were left in place
slapstic111_both_families ==
    [bankstart |-> 0,
     bank      |-> Bank4(\H0042, \H0052, \H0062, \H0072),
     alt1      |-> MaskValue(\H007f, \H000a),
     alt2      |-> MaskValue(\H3fff, \H28a4),
     alt3      |-> MaskValue(\H0784, \H0080),
     alt4      |-> MaskValue(\H3fcf, \H0042),
     altshift  |-> 0]
    @@ [bit1      |-> MaskValue(\H3ff0, \H34c0),
        bit2c0    |-> MaskValue(\H3ff3, \H34c0),
        bit2s0    |-> MaskValue(\H3ff3, \H34c1),
        bit2c1    |-> MaskValue(\H3ff3, \H34c2),
        bit2s1    |-> MaskValue(\H3ff3, \H34c3),
        bit3      |-> MaskValue(\H3ff8, \H34d0)]
    @@ [add1      |-> MaskValue(\H3fff, \H00a1),
        add2      |-> MaskValue(\H3fff, \H00a2),
        addplus1  |-> MaskValue(\H3c4f, \H284d),
        addplus2  |-> MaskValue(\H3a5f, \H285d),
        add3      |-> MaskValue(\H3ff8, \H2800)]

slapstic111 ==
    [bankstart |-> 0,
     bank      |-> Bank4(\H0042, \H0052, \H0062, \H0072),
     alt1      |-> MaskValue(\H007f, \H000a),
     alt2      |-> MaskValue(\H3fff, \H28a4),
     alt3      |-> MaskValue(\H0784, \H0080),
     alt4      |-> MaskValue(\H3fcf, \H0042),
     altshift  |-> 0]
    @@ NO_BITWISE
    @@ [add1      |-> MaskValue(\H3fff, \H00a1),
        add2      |-> MaskValue(\H3fff, \H00a2),
        addplus1  |-> MaskValue(\H3c4f, \H284d),
        addplus2  |-> MaskValue(\H3a5f, \H285d),
        add3      |-> MaskValue(\H3ff8, \H2800)]

slapstic112 ==
    [bankstart |-> 0,
     bank      |-> Bank4(\H002c, \H003c, \H006c, \H007c),
     alt1      |-> MaskValue(\H007f, \H0014),
     alt2      |-> MaskValue(\H3fff, \H29a0),
     alt3      |-> MaskValue(\H0073, \H0010),
     alt4      |-> MaskValue(\H3faf, \H002c),
     altshift  |-> 2]
    @@ NO_BITWISE
    @@ [add1      |-> MaskValue(\H3fff, \H2dce),
        add2      |-> MaskValue(\H3fff, \H2dcf),
        addplus1  |-> MaskValue(\H3def, \H15e2),
        addplus2  |-> MaskValue(\H3fbf, \H15a2),
        add3      |-> MaskValue(\H3ffc, \H1450)]

slapstic113 ==
    [bankstart |-> 0,
     bank      |-> Bank4(\H0008, \H0018, \H0028, \H0038),
     alt1      |-> MaskValue(\H007f, \H0059),
     alt2      |-> MaskValue(\H3fff, \H11a5),
     alt3      |-> MaskValue(\H0860, \H0800),
     alt4      |-> MaskValue(\H3fcf, \H0008),
     altshift  |-> 3]
    @@ NO_BITWISE
    @@ [add1      |-> MaskValue(\H3fff, \H049b),
        add2      |-> MaskValue(\H3fff, \H049c),
        addplus1  |-> MaskValue(\H3fcf, \H3ec7),
        addplus2  |-> MaskValue(\H3edf, \H3ed7),
        add3      |-> MaskValue(\H3fff, \H3fb2)]

slapstic114 ==
    [bankstart |-> 0,
     bank      |-> Bank4(\H0040, \H0048, \H0050, \H0058),
     alt1      |-> MaskValue(\H007f, \H0016),
     alt2      |-> MaskValue(\H3fff, \H24de),
     alt3      |-> MaskValue(\H3871, \H0000),
     alt4      |-> MaskValue(\H3fe7, \H0040),
     altshift  |-> 1]
    @@ NO_BITWISE
    @@ [add1      |-> MaskValue(\H3fff, \H0ab7),
        add2      |-> MaskValue(\H3fff, \H0ab8),
        addplus1  |-> MaskValue(\H3f63, \H0d40),
        addplus2  |-> MaskValue(\H3fd9, \H0dc8),
        add3      |-> MaskValue(\H3fff, \H0ab0)]

slapstic115 ==
    [bankstart |-> 0,
     bank      |-> Bank4(\H0020, \H0022, \H0024, \H0026),
     alt1      |-> MaskValue(\H007f, \H0054),
     alt2      |-> MaskValue(\H3fff, \H3e01),
     alt3      |-> MaskValue(\H3879, \H0029),
     alt4      |-> MaskValue(\H3ff9, \H0020),
     altshift  |-> 1]
    @@ NO_BITWISE
    @@ [add1      |-> MaskValue(\H3fff, \H2591),
        add2      |-> MaskValue(\H3fff, \H2592),
        addplus1  |-> MaskValue(\H3fe6, \H3402),
        addplus2  |-> MaskValue(\H3fb4, \H3410),
        add3      |-> MaskValue(\H3fff, \H34a2)]

slapstic116 ==
    [bankstart |-> 0,
     bank      |-> Bank4(\H0044, \H004c, \H0054, \H005c),
     alt1      |-> MaskValue(\H007f, \H0069),
     alt2      |-> MaskValue(\H3fff, \H2bab),
     alt3      |-> MaskValue(\H387c, \H0808),
     alt4      |-> MaskValue(\H3fe7, \H0044),
     altshift  |-> 0]
    @@ NO_BITWISE
    @@ [add1      |-> MaskValue(\H3fff, \H3f7c),
        add2      |-> MaskValue(\H3fff, \H3f7d),
        addplus1  |-> MaskValue(\H3db2, \H3c12),
        addplus2  |-> MaskValue(\H3fe3, \H3e43),
        add3      |-> MaskValue(\H3fff, \H2ba8)]

\* variant: the escape offset is one that matches no increment
slapstic117_plain_escape ==
    [bankstart |-> 0,
     bank      |-> Bank4(\H0008, \H001a, \H002c, \H003e),
     alt1      |-> MaskValue(\H007f, \H007d),
     alt2      |-> MaskValue(\H3fff, \H3580),
     alt3      |-> MaskValue(\H0079, \H0020),
     alt4      |-> MaskValue(\H3fc9, \H0008),
     altshift  |-> 1]
    @@ NO_BITWISE
    @@ [add1      |-> MaskValue(\H3fff, \H0676),
        add2      |-> MaskValue(\H3fff, \H0677),
        addplus1  |-> MaskValue(\H3e62, \H1a42),
        addplus2  |-> MaskValue(\H3e35, \H1a11),
        add3      |-> MaskValue(\H3fff, \H1a40)]

slapstic117 ==
    [bankstart |-> 0,
     bank      |-> Bank4(\H0008, \H001a, \H002c, \H003e),
     alt1      |-> MaskValue(\H007f, \H007d),
     alt2      |-> MaskValue(\H3fff, \H3580),
     alt3      |-> MaskValue(\H0079, \H0020),
     alt4      |-> MaskValue(\H3fc9, \H0008),
     altshift  |-> 1]
    @@ NO_BITWISE
    @@ [add1      |-> MaskValue(\H3fff, \H0676),
        add2      |-> MaskValue(\H3fff, \H0677),
        addplus1  |-> MaskValue(\H3e62, \H1a42),
        addplus2  |-> MaskValue(\H3e35, \H1a11),
        add3      |-> MaskValue(\H3fff, \H1a42)]

slapstic118 ==
    [bankstart |-> 0,
     bank      |-> Bank4(\H0014, \H0034, \H0054, \H0074),
     alt1      |-> MaskValue(\H007f, \H0002),
     alt2      |-> MaskValue(\H3fff, \H1950),
     alt3      |-> MaskValue(\H0067, \H0020),
     alt4      |-> MaskValue(\H3f9f, \H0014),
     altshift  |-> 3]
    @@ NO_BITWISE
    @@ [add1      |-> MaskValue(\H3fff, \H1958),
        add2      |-> MaskValue(\H3fff, \H1959),
        addplus1  |-> MaskValue(\H3f73, \H3052),
        addplus2  |-> MaskValue(\H3f67, \H3042),
        add3      |-> MaskValue(\H3ff8, \H30e0)]

(***************************************************************************)
(* Master slapstic table; 102 was never seen and has no entry.             *)
(***************************************************************************)
slapstic_table ==
    [n \in (101 .. 118) \ {102} |->
        CASE n = 101 -> slapstic101
          [] n = 103 -> slapstic103
          [] n = 104 -> slapstic104
          [] n = 105 -> slapstic105
          [] n = 106 -> slapstic106
          [] n = 107 -> slapstic107
          [] n = 108 -> slapstic108
          [] n = 109 -> slapstic109
          [] n = 110 -> slapstic110
          [] n = 111 -> slapstic111
          [] n = 112 -> slapstic112
          [] n = 113 -> slapstic113
          [] n = 114 -> slapstic114
          [] n = 115 -> slapstic115
          [] n = 116 -> slapstic116
          [] n = 117 -> slapstic117
          [] n = 118 -> slapstic118]

\* the chip numbers device_validity_check accepts
ChipNums == DOMAIN slapstic_table

(***************************************************************************)
(* State names, as slapstic_log prints them.                               *)
(***************************************************************************)
DISABLED   == "DISABLED"
\* ENABLED is a TLA+ keyword, so this one name carries a suffix
ENABLED_ST == "ENABLED"
ALTERNATE1 == "ALTERNATE1"
ALTERNATE2 == "ALTERNATE2"
ALTERNATE3 == "ALTERNATE3"
BITWISE1   == "BITWISE1"
BITWISE2   == "BITWISE2"
BITWISE3   == "BITWISE3"
ADDITIVE1  == "ADDITIVE1"
ADDITIVE2  == "ADDITIVE2"
ADDITIVE3  == "ADDITIVE3"

States ==
    {DISABLED, ENABLED_ST, ALTERNATE1, ALTERNATE2, ALTERNATE3,
     BITWISE1, BITWISE2, BITWISE3, ADDITIVE1, ADDITIVE2, ADDITIVE3}

(***************************************************************************)
(* Bounds of the model: the offsets presented to the chip and the CPU      *)
(* state the 68k kludge may read.                                          *)
(***************************************************************************)
\* the chip decodes 14 address lines
AddressLines == 14

OffsetLimit == 2 ^ AddressLines

\* number of offsets added that are unrelated to the chip's table
NumNoise == 2

NoiseOffsets == {(i * \H0555) % OffsetLimit : i \in 1 .. NumNoise}

PairsOf(sl) ==
    {sl.alt1, sl.alt2, sl.alt3, sl.alt4,
     sl.bit1, sl.bit2c0, sl.bit2s0, sl.bit2c1, sl.bit2s1, sl.bit3,
     sl.add1, sl.add2, sl.addplus1, sl.addplus2, sl.add3}

\* pairs some 14-bit offset can match
LivePairs(sl) ==
    {p \in PairsOf(sl) : /\ p.mask # 0
                         /\ p.value < OffsetLimit
                         /\ BitAnd(p.value, p.mask) = p.value}

\* the target of every pair, and the join of every two pairs that agree
\* on the bits both of them test (an offset matching both at once)
JointOffsets(sl) ==
    {BitOr(p.value, q.value) :
        <<p, q>> \in {pq \in LivePairs(sl) \X LivePairs(sl) :
                        BitAnd(pq[1].value, pq[2].mask)
                            = BitAnd(pq[2].value, pq[1].mask)}}

\* third alternate offsets carrying each of the four bank numbers
Alt3Offsets(sl) ==
    {BitOr(sl.alt3.value, ShiftLeft(b, sl.altshift)) : b \in 0 .. 3}

BankOffsets(sl) == {sl.bank[i] : i \in 0 .. 3}

OffsetsOf ==
    [n \in ChipNums |->
        LET sl == slapstic_table[n]
        IN  {0} \cup BankOffsets(sl) \cup JointOffsets(sl)
                \cup Alt3Offsets(sl) \cup NoiseOffsets]

\* 68k state read by alt2_kludge: pc(), the opcode word at pcbase() and
\* the address registers A0..A7
PcValues(sl) == {ShiftLeft(sl.alt1.value % OffsetLimit, 1), \H1000}

\* move.w (A0),(A0) ; cmpm.w (A0)+,(A1)+ ; nop
Opcodes == {\H3090, \Hb348, \H4e71}

RegValues(sl) ==
    {ShiftLeft(a, 1) : a \in {BitOr(sl.alt3.value, ShiftLeft(b, sl.altshift)) :
                                b \in 1 .. 2}}
        \cup {\H2002}

ARegFiles(sl) ==
    {[r \in 0 .. 7 |-> IF r = 0 THEN v ELSE w] :
        v \in RegValues(sl), w \in RegValues(sl)}

CpuStatesOf ==
    [n \in ChipNums |->
        LET sl == slapstic_table[n]
        IN  [pc : PcValues(sl), opcode : Opcodes, areg : ARegFiles(sl)]]

\* values access_68k can hold: -1 from the constructor (the kludge is in
\* use), 0 when the owner declares a CPU that is not a 68k
Access68kValues == {-1, 0}

\* longest run of unrelated accesses the observers count exactly
MaxNoiseRun == 2

\* most matches of addplus1, and of addplus2, the observer of an additive
\* sequence counts; a longer sequence is not followed
MaxPlus == 3

(***************************************************************************)
(* Device state.                                                           *)
(***************************************************************************)
VARIABLES
    m_chipnum,      \* configured chip number
    access_68k,     \* non-zero: the 68k kludge is in use
    state,          \* state of the bankswitching machine
    current_bank,   \* the bank the chip selects
    alt_bank,       \* bank latched by the alternate sequence
    bit_bank,       \* bank being built by the bitwise sequence
    add_bank,       \* bank being built by the additive sequence
    bit_xor,        \* toggle applied to the offset in BITWISE2
    call,           \* the last call made on the device
    offset,         \* the offset passed to the last slapstic_tweak
    result,         \* what the last call returned
    cpu,            \* the CPU state alt2_kludge read in the last call
    before,         \* the device as it was when the last call was made
    simple_st,      \* observer: progress of a simple bankswitch
    simple_n,       \* observer: unrelated accesses made during it
    alt_seq,        \* observer: progress of an alternate bankswitch
    alt_a3,         \* observer: its third offset
    bit_seq,        \* observer: progress of a bitwise sequence after reset
    bit_sel,        \* observer: the bank offset that opened it
    add_seq,        \* observer: progress of the additive example on 111
    zero_seen,      \* observer: offset 0 accessed since reset / bank change
    add_ph,         \* observer: progress of an additive sequence
    add_base,       \* observer: current_bank when the sequence began
    add_n1,         \* observer: accesses in ADDITIVE2 matching addplus1
    add_n2          \* observer: accesses in ADDITIVE2 matching addplus2

devvars == <<state, current_bank, alt_bank, bit_bank, add_bank, bit_xor>>

cfgvars == <<m_chipnum, access_68k>>

obsvars == <<call, offset, result, cpu, before>>

seqvars ==
    <<simple_st, simple_n, alt_seq, alt_a3, bit_seq, bit_sel, add_seq,
      zero_seen, add_ph, add_base, add_n1, add_n2>>

\* the parameters slapstic_init copied for this device
slapstic == slapstic_table[m_chipnum]

\* the device's mutable members as one record
dev ==
    [state        |-> state,
     current_bank |-> current_bank,
     alt_bank     |-> alt_bank,
     bit_bank     |-> bit_bank,
     add_bank     |-> add_bank,
     bit_xor      |-> bit_xor]

NoOffset == -1

NoResult == -1

NoRegs == [r \in 0 .. 7 |-> -1]

NoCpu == [pc |-> -1, opcode |-> -1, regval |-> -1, areg |-> NoRegs]

NoDev ==
    [state        |-> "none",
     current_bank |-> -1,
     alt_bank     |-> -1,
     bit_bank     |-> -1,
     add_bank     |-> -1,
     bit_xor      |-> -1]

(***************************************************************************)
(* Kludge to catch alt sequences                                           *)
(***************************************************************************)
\* the register of the second operand, halved
KludgeRegval(c) ==
    ShiftRight(c.areg[BitAnd(ShiftRight(c.opcode, 9), 7)], 1)

KludgePcMatches(sl, c) == MATCHES_MASK_VALUE(ShiftRight(c.pc, 1), sl.alt1)

KludgeOpcodeMatches(c) ==
    \/ BitAnd(c.opcode, \Hf1f8) = \H3090
    \/ BitAnd(c.opcode, \Hf1f8) = \Hb148

\* variant: the register of the first operand is taken
alt2_kludge_first_operand(d, sl, acc, c) ==
    IF acc # 0
    THEN IF /\ KludgePcMatches(sl, c)
            /\ KludgeOpcodeMatches(c)
            /\ MATCHES_MASK_VALUE(
                   ShiftRight(c.areg[BitAnd(c.opcode, 7)], 1), sl.alt3)
         THEN [d EXCEPT !.state = ALTERNATE3,
                        !.alt_bank =
                            BitAnd(ShiftRight(
                                ShiftRight(c.areg[BitAnd(c.opcode, 7)], 1),
                                sl.altshift), 3)]
         ELSE [d EXCEPT !.state = ENABLED_ST]
    ELSE [d EXCEPT !.state = ALTERNATE2]

\* variant: the instruction is decoded whatever access_68k says
alt2_kludge_always_decodes(d, sl, acc, c) ==
    IF /\ KludgePcMatches(sl, c)
       /\ KludgeOpcodeMatches(c)
       /\ MATCHES_MASK_VALUE(KludgeRegval(c), sl.alt3)
    THEN [d EXCEPT !.state = ALTERNATE3,
                   !.alt_bank =
                       BitAnd(ShiftRight(KludgeRegval(c), sl.altshift), 3)]
    ELSE [d EXCEPT !.state = ENABLED_ST]

alt2_kludge(d, sl, acc, c) ==
    IF acc # 0
    THEN IF /\ KludgePcMatches(sl, c)
            /\ KludgeOpcodeMatches(c)
            /\ MATCHES_MASK_VALUE(KludgeRegval(c), sl.alt3)
         THEN [d EXCEPT !.state = ALTERNATE3,
                        !.alt_bank =
                            BitAnd(ShiftRight(KludgeRegval(c), sl.altshift), 3)]
         ELSE [d EXCEPT !.state = ENABLED_ST]
    ELSE [d EXCEPT !.state = ALTERNATE2]

\* what alt2_kludge read of the CPU: the opcode only once the pc matched,
\* the register only once the opcode matched (areg: the address registers
\* as they were then)
KludgeReads(sl, acc, c) ==
    IF acc = 0 THEN NoCpu
    ELSE IF ~KludgePcMatches(sl, c) THEN [NoCpu EXCEPT !.pc = c.pc]
    ELSE IF ~KludgeOpcodeMatches(c)
         THEN [NoCpu EXCEPT !.pc = c.pc, !.opcode = c.opcode]
    ELSE [pc |-> c.pc, opcode |-> c.opcode, regval |-> KludgeRegval(c),
          areg |-> c.areg]

(***************************************************************************)
(* slapstic_tweak, one operator per case of the switch                     *)
(***************************************************************************)
IsBankOffset(sl, off) ==
    \/ off = sl.bank[0]
    \/ off = sl.bank[1]
    \/ off = sl.bank[2]
    \/ off = sl.bank[3]

\* variant: an access that is no bank offset gives up the bankswitch
standard_bankswitch_strict(d, sl, off) ==
    IF off = sl.bank[0]
    THEN [d EXCEPT !.state = DISABLED, !.current_bank = 0]
    ELSE IF off = sl.bank[1]
    THEN [d EXCEPT !.state = DISABLED, !.current_bank = 1]
    ELSE IF off = sl.bank[2]
    THEN [d EXCEPT !.state = DISABLED, !.current_bank = 2]
    ELSE IF off = sl.bank[3]
    THEN [d EXCEPT !.state = DISABLED, !.current_bank = 3]
    ELSE [d EXCEPT !.state = DISABLED]

\* ENABLED state, check for standard bankswitches
standard_bankswitch(d, sl, off) ==
    IF off = sl.bank[0]
    THEN [d EXCEPT !.state = DISABLED, !.current_bank = 0]
    ELSE IF off = sl.bank[1]
    THEN [d EXCEPT !.state = DISABLED, !.current_bank = 1]
    ELSE IF off = sl.bank[2]
    THEN [d EXCEPT !.state = DISABLED, !.current_bank = 2]
    ELSE IF off = sl.bank[3]
    THEN [d EXCEPT !.state = DISABLED, !.current_bank = 3]
    ELSE d

\* variant: a disabled chip still obeys the bank offsets
tweak_DISABLED_obeys_banks(d, sl, off) == standard_bankswitch(d, sl, off)

\* DISABLED state: everything is ignored except a reset
tweak_DISABLED(d, sl, off) == d

\* variant: the first alternate offset is tested before the twiddle triggers
tweak_ENABLED_alt_first(d, sl, acc, c, off) ==
    IF MATCHES_MASK_VALUE(off, sl.alt1)
    THEN [d EXCEPT !.state = ALTERNATE1]
    ELSE IF MATCHES_MASK_VALUE(off, sl.bit1)
    THEN [d EXCEPT !.state = BITWISE1]
    ELSE IF MATCHES_MASK_VALUE(off, sl.add1)
    THEN [d EXCEPT !.state = ADDITIVE1]
    ELSE IF MATCHES_MASK_VALUE(off, sl.alt2)
    THEN alt2_kludge(d, sl, acc, c)
    ELSE standard_bankswitch(d, sl, off)

\* ENABLED state: the chip has been activated and is ready for a bankswitch
tweak_ENABLED(d, sl, acc, c, off) ==
    IF MATCHES_MASK_VALUE(off, sl.bit1)
    THEN [d EXCEPT !.state = BITWISE1]
    ELSE IF MATCHES_MASK_VALUE(off, sl.add1)
    THEN [d EXCEPT !.state = ADDITIVE1]
    ELSE IF MATCHES_MASK_VALUE(off, sl.alt1)
    THEN [d EXCEPT !.state = ALTERNATE1]
    ELSE IF MATCHES_MASK_VALUE(off, sl.alt2)
    THEN alt2_kludge(d, sl, acc, c)
    ELSE standard_bankswitch(d, sl, off)

\* does this access reach alt2_kludge?
CallsKludge(d, sl, off) ==
    /\ off # 0
    /\ d.state = ENABLED_ST
    /\ ~MATCHES_MASK_VALUE(off, sl.bit1)
    /\ ~MATCHES_MASK_VALUE(off, sl.add1)
    /\ ~MATCHES_MASK_VALUE(off, sl.alt1)
    /\ MATCHES_MASK_VALUE(off, sl.alt2)

\* variant: a broken alternate sequence disables the chip
tweak_ALTERNATE1_disables(d, sl, off) ==
    IF MATCHES_MASK_VALUE(off, sl.alt2)
    THEN [d EXCEPT !.state = ALTERNATE2]
    ELSE [d EXCEPT !.state = DISABLED]

\* ALTERNATE1 state: look for alternate2 offset, or else fall back to ENABLED
tweak_ALTERNATE1(d, sl, off) ==
    IF MATCHES_MASK_VALUE(off, sl.alt2)
    THEN [d EXCEPT !.state = ALTERNATE2]
    ELSE [d EXCEPT !.state = ENABLED_ST]

\* variant: the bank is taken from the low bits, altshift forgotten
tweak_ALTERNATE2_noshift(d, sl, off) ==
    IF MATCHES_MASK_VALUE(off, sl.alt3)
    THEN [d EXCEPT !.state = ALTERNATE3, !.alt_bank = BitAnd(off, 3)]
    ELSE [d EXCEPT !.state = ENABLED_ST]

\* ALTERNATE2 state: look for altbank offset, or else fall back to ENABLED
tweak_ALTERNATE2(d, sl, off) ==
    IF MATCHES_MASK_VALUE(off, sl.alt3)
    THEN [d EXCEPT !.state = ALTERNATE3,
                   !.alt_bank = BitAnd(ShiftRight(off, sl.altshift), 3)]
    ELSE [d EXCEPT !.state = ENABLED_ST]

\* variant: a bank offset met while waiting selects its own bank
tweak_ALTERNATE3_selects_index(d, sl, off) ==
    IF IsBankOffset(sl, off)
    THEN standard_bankswitch(d, sl, off)
    ELSE IF MATCHES_MASK_VALUE(off, sl.alt4)
    THEN [d EXCEPT !.state = DISABLED, !.current_bank = d.alt_bank]
    ELSE d

\* variant: an access that is not the final value aborts the transaction
tweak_ALTERNATE3_aborts(d, sl, off) ==
    IF MATCHES_MASK_VALUE(off, sl.alt4)
    THEN [d EXCEPT !.state = DISABLED, !.current_bank = d.alt_bank]
    ELSE [d EXCEPT !.state = ENABLED_ST]

\* variant: the finished transaction leaves the chip enabled
tweak_ALTERNATE3_stays_enabled(d, sl, off) ==
    IF MATCHES_MASK_VALUE(off, sl.alt4)
    THEN [d EXCEPT !.state = ENABLED_ST, !.current_bank = d.alt_bank]
    ELSE d

\* ALTERNATE3 state: wait for the final value to finish the transaction
tweak_ALTERNATE3(d, sl, off) ==
    IF MATCHES_MASK_VALUE(off, sl.alt4)
    THEN [d EXCEPT !.state = DISABLED, !.current_bank = d.alt_bank]
    ELSE d

\* variant: the bank offset accessed, not the current bank, is latched
tweak_BITWISE1_latches_index(d, sl, off) ==
    IF IsBankOffset(sl, off)
    THEN [d EXCEPT !.state = BITWISE2,
                   !.bit_bank = CHOOSE k \in 0 .. 3 : off = sl.bank[k],
                   !.bit_xor = 0]
    ELSE d

\* BITWISE1 state: waiting for a bank to enter the BITWISE state
tweak_BITWISE1(d, sl, off) ==
    IF IsBankOffset(sl, off)
    THEN [d EXCEPT !.state = BITWISE2,
                   !.bit_bank = d.current_bank,
                   !.bit_xor = 0]
    ELSE d

\* variant: setting bit 1 forgets to flip the xor latch
tweak_BITWISE2_set1_keeps_xor(d, sl, off) ==
    IF MATCHES_MASK_VALUE(BitXor(off, d.bit_xor), sl.bit2c0)
    THEN [d EXCEPT !.bit_bank = BitClear(d.bit_bank, 1),
                   !.bit_xor = BitXor(d.bit_xor, 3)]
    ELSE IF MATCHES_MASK_VALUE(BitXor(off, d.bit_xor), sl.bit2s0)
    THEN [d EXCEPT !.bit_bank = BitOr(d.bit_bank, 1),
                   !.bit_xor = BitXor(d.bit_xor, 3)]
    ELSE IF MATCHES_MASK_VALUE(BitXor(off, d.bit_xor), sl.bit2c1)
    THEN [d EXCEPT !.bit_bank = BitClear(d.bit_bank, 2),
                   !.bit_xor = BitXor(d.bit_xor, 3)]
    ELSE IF MATCHES_MASK_VALUE(BitXor(off, d.bit_xor), sl.bit2s1)
    THEN [d EXCEPT !.bit_bank = BitOr(d.bit_bank, 2)]
    ELSE IF MATCHES_MASK_VALUE(off, sl.bit3)
    THEN [d EXCEPT !.state = BITWISE3]
    ELSE d

\* BITWISE2 state: watch for twiddling and the escape mechanism
tweak_BITWISE2(d, sl, off) ==
    IF MATCHES_MASK_VALUE(BitXor(off, d.bit_xor), sl.bit2c0)
    THEN [d EXCEPT !.bit_bank = BitClear(d.bit_bank, 1),
                   !.bit_xor = BitXor(d.bit_xor, 3)]
    ELSE IF MATCHES_MASK_VALUE(BitXor(off, d.bit_xor), sl.bit2s0)
    THEN [d EXCEPT !.bit_bank = BitOr(d.bit_bank, 1),
                   !.bit_xor = BitXor(d.bit_xor, 3)]
    ELSE IF MATCHES_MASK_VALUE(BitXor(off, d.bit_xor), sl.bit2c1)
    THEN [d EXCEPT !.bit_bank = BitClear(d.bit_bank, 2),
                   !.bit_xor = BitXor(d.bit_xor, 3)]
    ELSE IF MATCHES_MASK_VALUE(BitXor(off, d.bit_xor), sl.bit2s1)
    THEN [d EXCEPT !.bit_bank = BitOr(d.bit_bank, 2),
                   !.bit_xor = BitXor(d.bit_xor, 3)]
    ELSE IF MATCHES_MASK_VALUE(off, sl.bit3)
    THEN [d EXCEPT !.state = BITWISE3]
    ELSE d

\* variant: an access that is no bank offset is rejected
tweak_BITWISE3_rejects(d, sl, off) ==
    IF IsBankOffset(sl, off)
    THEN [d EXCEPT !.state = DISABLED, !.current_bank = d.bit_bank]
    ELSE [d EXCEPT !.state = "ERROR"]

\* BITWISE3 state: waiting for a bank to seal the deal
tweak_BITWISE3(d, sl, off) ==
    IF IsBankOffset(sl, off)
    THEN [d EXCEPT !.state = DISABLED, !.current_bank = d.bit_bank]
    ELSE d

\* variant: the sum goes on from where the previous sequence left it
tweak_ADDITIVE1_keeps_sum(d, sl, off) ==
    IF MATCHES_MASK_VALUE(off, sl.add2)
    THEN [d EXCEPT !.state = ADDITIVE2]
    ELSE [d EXCEPT !.state = ENABLED_ST]

\* variant: the latch assignment is written the wrong way round
tweak_ADDITIVE1_reversed(d, sl, off) ==
    IF MATCHES_MASK_VALUE(off, sl.add2)
    THEN [d EXCEPT !.state = ADDITIVE2, !.current_bank = d.add_bank]
    ELSE [d EXCEPT !.state = ENABLED_ST]

\* ADDITIVE1 state: look for add2 offset, or else fall back to ENABLED
tweak_ADDITIVE1(d, sl, off) ==
    IF MATCHES_MASK_VALUE(off, sl.add2)
    THEN [d EXCEPT !.state = ADDITIVE2, !.add_bank = d.current_bank]
    ELSE [d EXCEPT !.state = ENABLED_ST]

\* variant: the three tests exclude one another
tweak_ADDITIVE2_exclusive(d, sl, off) ==
    IF MATCHES_MASK_VALUE(off, sl.addplus1)
    THEN [d EXCEPT !.add_bank = BitAnd(d.add_bank + 1, 3)]
    ELSE IF MATCHES_MASK_VALUE(off, sl.addplus2)
    THEN [d EXCEPT !.add_bank = BitAnd(d.add_bank + 2, 3)]
    ELSE IF MATCHES_MASK_VALUE(off, sl.add3)
    THEN [d EXCEPT !.state = ADDITIVE3]
    ELSE d

\* variant: the sums are not reduced to two bits
tweak_ADDITIVE2_unmasked(d, sl, off) ==
    LET d1 == IF MATCHES_MASK_VALUE(off, sl.addplus1)
              THEN [d EXCEPT !.add_bank = d.add_bank + 1]
              ELSE d
        d2 == IF MATCHES_MASK_VALUE(off, sl.addplus2)
              THEN [d1 EXCEPT !.add_bank = d1.add_bank + 2]
              ELSE d1
    IN  IF MATCHES_MASK_VALUE(off, sl.add3)
        THEN [d2 EXCEPT !.state = ADDITIVE3]
        ELSE d2

\* variant: the two increments are exchanged
tweak_ADDITIVE2_exchanged(d, sl, off) ==
    LET d1 == IF MATCHES_MASK_VALUE(off, sl.addplus1)
              THEN [d EXCEPT !.add_bank = BitAnd(d.add_bank + 2, 3)]
              ELSE d
        d2 == IF MATCHES_MASK_VALUE(off, sl.addplus2)
              THEN [d1 EXCEPT !.add_bank = BitAnd(d1.add_bank + 1, 3)]
              ELSE d1
    IN  IF MATCHES_MASK_VALUE(off, sl.add3)
        THEN [d2 EXCEPT !.state = ADDITIVE3]
        ELSE d2

\* ADDITIVE2 state: watch for twiddling and the escape mechanism; the
\* three tests are made one after the other, none excludes the next
tweak_ADDITIVE2(d, sl, off) ==
    LET d1 == IF MATCHES_MASK_VALUE(off, sl.addplus1)
              THEN [d EXCEPT !.add_bank = BitAnd(d.add_bank + 1, 3)]
              ELSE d
        d2 == IF MATCHES_MASK_VALUE(off, sl.addplus2)
              THEN [d1 EXCEPT !.add_bank = BitAnd(d1.add_bank + 2, 3)]
              ELSE d1
    IN  IF MATCHES_MASK_VALUE(off, sl.add3)
        THEN [d2 EXCEPT !.state = ADDITIVE3]
        ELSE d2

\* variant: the bank offset accessed selects its own bank
tweak_ADDITIVE3_selects_index(d, sl, off) == standard_bankswitch(d, sl, off)

\* ADDITIVE3 state: waiting for a bank to seal the deal
tweak_ADDITIVE3(d, sl, off) ==
    IF IsBankOffset(sl, off)
    THEN [d EXCEPT !.state = DISABLED, !.current_bank = d.add_bank]
    ELSE d

\* otherwise, use the state machine
tweak_switch(d, sl, acc, c, off) ==
    CASE d.state = DISABLED   -> tweak_DISABLED(d, sl, off)
      [] d.state = ENABLED_ST -> tweak_ENABLED(d, sl, acc, c, off)
      [] d.state = ALTERNATE1 -> tweak_ALTERNATE1(d, sl, off)
      [] d.state = ALTERNATE2 -> tweak_ALTERNATE2(d, sl, off)
      [] d.state = ALTERNATE3 -> tweak_ALTERNATE3(d, sl, off)
      [] d.state = BITWISE1   -> tweak_BITWISE1(d, sl, off)
      [] d.state = BITWISE2   -> tweak_BITWISE2(d, sl, off)
      [] d.state = BITWISE3   -> tweak_BITWISE3(d, sl, off)
      [] d.state = ADDITIVE1  -> tweak_ADDITIVE1(d, sl, off)
      [] d.state = ADDITIVE2  -> tweak_ADDITIVE2(d, sl, off)
      [] d.state = ADDITIVE3  -> tweak_ADDITIVE3(d, sl, off)

\* variant: offset 0 resets only a chip that is not inside a sequence
slapstic_tweak_reset_when_idle(d, sl, acc, c, off) ==
    IF off = 0 /\ d.state \in {DISABLED, ENABLED_ST}
    THEN [d EXCEPT !.state = ENABLED_ST]
    ELSE tweak_switch(d, sl, acc, c, off)

\* the device after slapstic_tweak(space, off): reset is universal
slapstic_tweak(d, sl, acc, c, off) ==
    IF off = 0
    THEN [d EXCEPT !.state = ENABLED_ST]
    ELSE tweak_switch(d, sl, acc, c, off)

\* variant: the reset forgets the bank
slapstic_reset_state_only(d, sl) == [d EXCEPT !.state = DISABLED]

\* variant: the bank is read for the return before the switch has run
tweak_return_stale(d0, d1) == d0.current_bank

\* the value slapstic_tweak returns: d0 the device as the call found it,
\* d1 the device as the switch left it
tweak_return(d0, d1) == d1.current_bank

\* the device after slapstic_reset()
slapstic_reset(d, sl) ==
    [d EXCEPT !.state = DISABLED, !.current_bank = sl.bankstart]

\* the value slapstic_bank() returns
slapstic_bank(d) == d.current_bank

(***************************************************************************)
(* The device after construction and slapstic_init, and the calls its     *)
(* owner makes on it.                                                      *)
(***************************************************************************)
SetDev(d) ==
    /\ state' = d.state
    /\ current_bank' = d.current_bank
    /\ alt_bank' = d.alt_bank
    /\ bit_bank' = d.bit_bank
    /\ add_bank' = d.add_bank
    /\ bit_xor' = d.bit_xor

InitDevice ==
    /\ m_chipnum \in ChipNums
    /\ access_68k \in Access68kValues
    /\ state = DISABLED
    /\ current_bank = slapstic_table[m_chipnum].bankstart
    /\ alt_bank = 0
    /\ bit_bank = 0
    /\ add_bank = 0
    /\ bit_xor = 0
    /\ call = "slapstic_init"
    /\ offset = NoOffset
    /\ result = NoResult
    /\ cpu = NoCpu
    /\ before = NoDev

\* the owner is between two calls: the last call has returned and its
\* result has been used
Idle == call \in {"slapstic_init", "none"}

DoReset ==
    /\ Idle
    /\ before' = dev
    /\ SetDev(slapstic_reset(dev, slapstic))
    /\ call' = "slapstic_reset"
    /\ offset' = NoOffset
    /\ result' = NoResult
    /\ cpu' = NoCpu
    /\ UNCHANGED cfgvars

\* variant: the query re-arms the chip as a reset would
DoBank_rearms ==
    /\ Idle
    /\ before' = dev
    /\ call' = "slapstic_bank"
    /\ result' = slapstic_bank(dev)
    /\ offset' = NoOffset
    /\ cpu' = NoCpu
    /\ SetDev([dev EXCEPT !.state = ENABLED_ST])
    /\ UNCHANGED cfgvars

DoBank ==
    /\ Idle
    /\ before' = dev
    /\ call' = "slapstic_bank"
    /\ result' = slapstic_bank(dev)
    /\ offset' = NoOffset
    /\ cpu' = NoCpu
    /\ UNCHANGED <<devvars, cfgvars>>

\* an access that does not reach alt2_kludge reads nothing of the CPU
TweakPlain(off) ==
    /\ ~CallsKludge(dev, slapstic, off)
    /\ LET d == slapstic_tweak(dev, slapstic, access_68k, NoCpu, off)
       IN  /\ SetDev(d)
           /\ result' = tweak_return(dev, d)
    /\ call' = "slapstic_tweak"
    /\ offset' = off
    /\ cpu' = NoCpu
    /\ UNCHANGED cfgvars

\* an access that reaches alt2_kludge, with the CPU in state c
TweakKludge(off, c) ==
    /\ CallsKludge(dev, slapstic, off)
    /\ LET d == slapstic_tweak(dev, slapstic, access_68k, c, off)
       IN  /\ SetDev(d)
           /\ result' = tweak_return(dev, d)
    /\ call' = "slapstic_tweak"
    /\ offset' = off
    /\ cpu' = KludgeReads(slapstic, access_68k, c)
    /\ UNCHANGED cfgvars

DoTweak(off) ==
    /\ Idle
    /\ before' = dev
    /\ \/ TweakPlain(off)
       \/ /\ CallsKludge(dev, slapstic, off)
          /\ \E c \in CpuStatesOf[m_chipnum] : TweakKludge(off, c)

\* the owner has used what the call returned and goes on to its next
\* call; nothing of the device changes
DoResume ==
    /\ ~Idle
    /\ call' = "none"
    /\ before' = NoDev
    /\ offset' = NoOffset
    /\ result' = NoResult
    /\ cpu' = NoCpu
    /\ UNCHANGED <<devvars, cfgvars>>

(***************************************************************************)
(* Observers.  They follow the offsets presented to the chip and never     *)
(* read what the chip made of them, so that a sequence of accesses can be  *)
(* named in a property.                                                    *)
(***************************************************************************)
Min(a, b) == IF a < b THEN a ELSE b

\* a non-zero offset that is no trigger of the ENABLED state and no bank
NonTriggering(sl, off) ==
    /\ off # 0
    /\ ~MATCHES_MASK_VALUE(off, sl.bit1)
    /\ ~MATCHES_MASK_VALUE(off, sl.add1)
    /\ ~MATCHES_MASK_VALUE(off, sl.alt1)
    /\ ~MATCHES_MASK_VALUE(off, sl.alt2)
    /\ ~IsBankOffset(sl, off)

\* simple bankswitch: 0 from DISABLED, non-triggering offsets, a bank offset
ObserveSimple(off) ==
    LET sl == slapstic
    IN  IF off = 0
        THEN /\ simple_st' = IF state = DISABLED THEN "armed" ELSE "off"
             /\ simple_n' = 0
        ELSE IF simple_st = "armed" /\ NonTriggering(sl, off)
        THEN /\ simple_st' = "armed"
             /\ simple_n' = Min(simple_n + 1, MaxNoiseRun)
        ELSE IF simple_st = "armed" /\ IsBankOffset(sl, off)
        THEN /\ simple_st' = "done"
             /\ simple_n' = simple_n
        ELSE /\ simple_st' = "off"
             /\ simple_n' = 0

\* alternate bankswitch: 0, then offsets matching alt1, alt2, alt3, alt4
ObserveAlt(off) ==
    LET sl == slapstic
        nxt == IF off = 0 THEN 1
               ELSE IF /\ alt_seq = 1
                       /\ MATCHES_MASK_VALUE(off, sl.alt1)
                       /\ ~MATCHES_MASK_VALUE(off, sl.bit1)
                       /\ ~MATCHES_MASK_VALUE(off, sl.add1) THEN 2
               ELSE IF alt_seq = 2 /\ MATCHES_MASK_VALUE(off, sl.alt2) THEN 3
               ELSE IF alt_seq = 3 /\ MATCHES_MASK_VALUE(off, sl.alt3) THEN 4
               ELSE IF alt_seq = 4 /\ MATCHES_MASK_VALUE(off, sl.alt4) THEN 5
               ELSE 0
    IN  /\ alt_seq' = nxt
        /\ alt_a3' = IF nxt = 4 THEN off
                     ELSE IF nxt = 5 THEN alt_a3
                     ELSE NoOffset

\* bitwise sequence right after reset: 0, bit1, a bank offset, set bit 0,
\* the escape, a bank offset
ObserveBit(off) ==
    LET sl == slapstic
        nxt == IF bit_seq = 1 /\ off = 0 THEN 2
               ELSE IF off = 0 THEN 0
               ELSE IF bit_seq = 2 /\ MATCHES_MASK_VALUE(off, sl.bit1) THEN 3
               ELSE IF bit_seq = 3 /\ IsBankOffset(sl, off) THEN 4
               ELSE IF bit_seq = 4 /\ MATCHES_MASK_VALUE(off, sl.bit2s0) THEN 5
               ELSE IF bit_seq = 5 /\ MATCHES_MASK_VALUE(off, sl.bit3) THEN 6
               ELSE IF bit_seq = 6 /\ IsBankOffset(sl, off) THEN 7
               ELSE 0
    IN  /\ bit_seq' = nxt
        /\ bit_sel' = IF nxt = 4 THEN off
                      ELSE IF nxt \in 5 .. 7 THEN bit_sel
                      ELSE NoOffset

\* the additive example on chip 111, made right after reset
AddExample == <<\H0000, \H00a1, \H00a2, \H284d, \H2800, \H0052>>

ObserveAdd(off) ==
    add_seq' = IF /\ m_chipnum = 111
                  /\ add_seq \in 0 .. Len(AddExample) - 1
                  /\ off = AddExample[add_seq + 1]
               THEN add_seq + 1
               ELSE -1

ObserveZero(off) ==
    zero_seen' = IF off = 0 THEN TRUE
                 ELSE IF current_bank' # current_bank THEN FALSE
                 ELSE zero_seen

\* additive sequence: 0, add1, add2, accesses made in ADDITIVE2 of which the
\* last matches add3, a bank offset.  Phase 1 after the 0, 2 after add1,
\* 3 while in ADDITIVE2, 4 after the escape, 5 after the bank offset.
ObserveAddSeq(off) ==
    LET sl == slapstic
        n1 == add_n1 + (IF MATCHES_MASK_VALUE(off, sl.addplus1) THEN 1 ELSE 0)
        n2 == add_n2 + (IF MATCHES_MASK_VALUE(off, sl.addplus2) THEN 1 ELSE 0)
    IN  IF off = 0
        THEN /\ add_ph' = 1
             /\ add_base' = current_bank
             /\ add_n1' = 0
             /\ add_n2' = 0
        ELSE IF add_ph = 1 /\ MATCHES_MASK_VALUE(off, sl.add1)
        THEN add_ph' = 2 /\ UNCHANGED <<add_base, add_n1, add_n2>>
        ELSE IF add_ph = 2 /\ MATCHES_MASK_VALUE(off, sl.add2)
        THEN add_ph' = 3 /\ UNCHANGED <<add_base, add_n1, add_n2>>
        ELSE IF add_ph = 3 /\ n1 <= MaxPlus /\ n2 <= MaxPlus
        THEN /\ add_ph' = IF MATCHES_MASK_VALUE(off, sl.add3) THEN 4 ELSE 3
             /\ add_n1' = n1
             /\ add_n2' = n2
             /\ UNCHANGED add_base
        ELSE IF add_ph = 4 /\ IsBankOffset(sl, off)
        THEN add_ph' = 5 /\ UNCHANGED <<add_base, add_n1, add_n2>>
        ELSE /\ add_ph' = 0
             /\ add_base' = 0
             /\ add_n1' = 0
             /\ add_n2' = 0

InitObservers ==
    /\ add_ph = 0
    /\ add_base = 0
    /\ add_n1 = 0
    /\ add_n2 = 0
    /\ simple_st = "off"
    /\ simple_n = 0
    /\ alt_seq = 0
    /\ alt_a3 = NoOffset
    /\ bit_seq = 1
    /\ bit_sel = NoOffset
    /\ add_seq = IF m_chipnum = 111 THEN 0 ELSE -1
    /\ zero_seen = FALSE

simplevars == <<simple_st, simple_n>>

tracevars == <<alt_seq, alt_a3, bit_seq, bit_sel, add_seq, zero_seen>>

addvars == <<add_ph, add_base, add_n1, add_n2>>

(***************************************************************************)
(* Specification: any chip, any sequence of calls.  The observers rest.    *)
(***************************************************************************)
Init == InitDevice /\ InitObservers

Reset == DoReset /\ UNCHANGED seqvars

Bank == DoBank /\ UNCHANGED seqvars

Tweak == \E off \in OffsetsOf[m_chipnum] : DoTweak(off) /\ UNCHANGED seqvars

Resume == DoResume /\ UNCHANGED seqvars

Next ==
    \/ Reset
    \/ Bank
    \/ Tweak
    \/ Resume

vars == <<cfgvars, devvars, obsvars, seqvars>>

Spec == Init /\ [][Next]_vars

(***************************************************************************)
(* The same calls, with the observer of the simple bankswitch running.     *)
(***************************************************************************)
ResetSimple ==
    /\ DoReset
    /\ simple_st' = "off"
    /\ simple_n' = 0
    /\ UNCHANGED <<tracevars, addvars>>

TweakSimple ==
    \E off \in OffsetsOf[m_chipnum] :
        /\ DoTweak(off)
        /\ ObserveSimple(off)
        /\ UNCHANGED <<tracevars, addvars>>

NextSimple ==
    \/ ResetSimple
    \/ Bank
    \/ TweakSimple
    \/ Resume

SpecSimple == Init /\ [][NextSimple]_vars

(***************************************************************************)
(* The same calls, with the observers of the alternate, bitwise and        *)
(* additive sequences and of the accesses to offset 0 running.             *)
(***************************************************************************)
ResetTrace ==
    /\ DoReset
    /\ alt_seq' = 0
    /\ alt_a3' = NoOffset
    /\ bit_seq' = 1
    /\ bit_sel' = NoOffset
    /\ add_seq' = IF m_chipnum = 111 THEN 0 ELSE -1
    /\ zero_seen' = FALSE
    /\ UNCHANGED <<simplevars, addvars>>

TweakTrace ==
    \E off \in OffsetsOf[m_chipnum] :
        /\ DoTweak(off)
        /\ ObserveAlt(off)
        /\ ObserveBit(off)
        /\ ObserveAdd(off)
        /\ ObserveZero(off)
        /\ UNCHANGED <<simplevars, addvars>>

NextTrace ==
    \/ ResetTrace
    \/ Bank
    \/ TweakTrace
    \/ Resume

SpecTrace == Init /\ [][NextTrace]_vars

(***************************************************************************)
(* The same calls, with the observer of the additive sequence running.     *)
(***************************************************************************)
ResetAdd ==
    /\ DoReset
    /\ add_ph' = 0
    /\ add_base' = 0
    /\ add_n1' = 0
    /\ add_n2' = 0
    /\ UNCHANGED <<simplevars, tracevars>>

TweakAdd ==
    \E off \in OffsetsOf[m_chipnum] :
        /\ DoTweak(off)
        /\ ObserveAddSeq(off)
        /\ UNCHANGED <<simplevars, tracevars>>

NextAdd ==
    \/ ResetAdd
    \/ Bank
    \/ TweakAdd
    \/ Resume

SpecAdd == Init /\ [][NextAdd]_vars

(***************************************************************************)
(* Properties.                                                             *)
(***************************************************************************)
Tweaked == call = "slapstic_tweak"

ScratchUnchanged ==
    /\ alt_bank = before.alt_bank
    /\ bit_bank = before.bit_bank
    /\ add_bank = before.add_bank
    /\ bit_xor = before.bit_xor

\* C1: simple protocol.  From DISABLED, an access to 0, then any number of
\* non-zero accesses that match none of bit1, add1, alt1, alt2 and are no
\* bank offset, then an access to bank[k], ends in DISABLED with
\* current_bank = k.
C1_SimpleBankswitch ==
    (Tweaked /\ simple_st = "done") =>
        /\ state = DISABLED
        /\ \A k \in 0 .. 3 : offset = slapstic.bank[k] => current_bank = k

C1_Witness ==
    /\ Tweaked
    /\ simple_st = "done"
    /\ simple_n >= 1
    /\ offset = slapstic.bank[2]
    /\ before.current_bank # 2
    /\ current_bank = 2

\* C2: universal override.  An access to offset 0 sets the state to ENABLED
\* and leaves current_bank, alt_bank, bit_bank, add_bank and bit_xor as they
\* were, in every state of every chip, also where 0 satisfies a pair of the
\* current state.
C2_ResetIsUniversal ==
    (Tweaked /\ offset = 0) =>
        /\ state = ENABLED_ST
        /\ current_bank = before.current_bank
        /\ ScratchUnchanged

C2_Witness ==
    /\ Tweaked
    /\ offset = 0
    /\ m_chipnum = 114
    /\ before.state = ALTERNATE2
    /\ MATCHES_MASK_VALUE(offset, slapstic.alt3)
    /\ state = ENABLED_ST

\* C3: alternate protocol, uninterrupted.  The accesses 0, a1 matching alt1
\* (and neither bit1 nor add1), a2 matching alt2, a3 matching alt3, a4
\* matching alt4 end in DISABLED with current_bank = (a3 >> altshift) & 3.
C3_AlternateBankswitch ==
    (Tweaked /\ alt_seq = 5) =>
        /\ state = DISABLED
        /\ current_bank = BitAnd(ShiftRight(alt_a3, slapstic.altshift), 3)

C3_Witness ==
    /\ Tweaked
    /\ alt_seq = 5
    /\ slapstic.altshift > 0
    /\ current_bank # before.current_bank
    /\ current_bank = 2

\* C4: alternate protocol, interrupted.  In ALTERNATE1 a non-zero access
\* that does not match alt2, and in ALTERNATE2 a non-zero access that does
\* not match alt3, moves the state to ENABLED and leaves current_bank alone,
\* also when the offset is a bank offset.
C4_AlternateAborts ==
    (/\ Tweaked
     /\ offset # 0
     /\ \/ /\ before.state = ALTERNATE1
           /\ ~MATCHES_MASK_VALUE(offset, slapstic.alt2)
        \/ /\ before.state = ALTERNATE2
           /\ ~MATCHES_MASK_VALUE(offset, slapstic.alt3))
    => /\ state = ENABLED_ST
       /\ current_bank = before.current_bank

C4_Witness ==
    /\ Tweaked
    /\ before.state = ALTERNATE2
    /\ ~MATCHES_MASK_VALUE(offset, slapstic.alt3)
    /\ \E k \in 0 .. 3 : offset = slapstic.bank[k] /\ k # before.current_bank
    /\ state = ENABLED_ST

\* C5 as claimed: right after reset, the accesses 0, an offset matching
\* bit1, bank[b], an offset matching bit2s0, an offset matching bit3, a bank
\* offset end with current_bank = b | 1.
C5_AsClaimed ==
    (Tweaked /\ bit_seq = 7) =>
        \A b \in 0 .. 3 :
            bit_sel = slapstic.bank[b] => current_bank = BitOr(b, 1)

\* C5, amended: that sequence ends in DISABLED with current_bank equal to
\* the bank before the sequence (the starting bank, as the sequence follows
\* a reset) with bit 0 set, whichever bank offset b opened it.
C5_BitwiseSetsBitOfOldBank ==
    (Tweaked /\ bit_seq = 7) =>
        /\ state = DISABLED
        /\ current_bank = BitOr(slapstic.bankstart, 1)

C5_Witness ==
    /\ Tweaked
    /\ bit_seq = 7
    /\ bit_sel = slapstic.bank[0]
    /\ before.state = BITWISE3
    /\ current_bank = 3

\* C6: on chip 111 after reset the accesses 0, 0x00a1, 0x00a2, 0x284d,
\* 0x2800, 0x52 pass through ENABLED, ADDITIVE1, ADDITIVE2, ADDITIVE2 with
\* add_bank = 1, ADDITIVE3 and end in DISABLED with current_bank = 1.
C6_AdditiveExample ==
    /\ add_seq = 0 => current_bank = 0
    /\ add_seq = 1 => state = ENABLED_ST
    /\ add_seq = 2 => state = ADDITIVE1
    /\ add_seq = 3 => state = ADDITIVE2
    /\ add_seq = 4 => state = ADDITIVE2 /\ add_bank = 1
    /\ add_seq = 5 => state = ADDITIVE3
    /\ add_seq = 6 => state = DISABLED /\ current_bank = 1

C6_Witness ==
    /\ Tweaked
    /\ m_chipnum = 111
    /\ add_seq = 6
    /\ offset = \H0052
    /\ before.state = ADDITIVE3
    /\ before.current_bank = 0

\* C7: bank persistence.  An access changes current_bank only if it sets
\* the state to DISABLED, coming from ENABLED, ALTERNATE3, BITWISE3 or
\* ADDITIVE3; every other access leaves current_bank as it was.
C7_BankChangesOnlyOnFinalize ==
    (Tweaked /\ current_bank # before.current_bank) =>
        /\ state = DISABLED
        /\ before.state \in {ENABLED_ST, ALTERNATE3, BITWISE3, ADDITIVE3}

C7_Witness ==
    /\ Tweaked
    /\ current_bank # before.current_bank
    /\ before.state = BITWISE3
    /\ state = DISABLED

\* C8: reset.  slapstic_reset leaves the state DISABLED and current_bank at
\* the chip's starting bank (3 for 101-110, 0 for 111-118) whatever the
\* device was before, and slapstic_bank then returns the starting bank.
C8_Reset ==
    call = "slapstic_reset" =>
        /\ state = DISABLED
        /\ current_bank = slapstic.bankstart
        /\ slapstic_bank(dev) = slapstic.bankstart
        /\ slapstic.bankstart = IF m_chipnum <= 110 THEN 3 ELSE 0

C8_Witness ==
    /\ call = "slapstic_reset"
    /\ before.state = ADDITIVE2
    /\ before.current_bank = 2
    /\ current_bank = 0

\* C9: every access that changes current_bank comes after an access to
\* offset 0 made since the reset and since the last access that changed
\* current_bank.
C9_BankChangeNeedsZero ==
    [][(call' = "slapstic_tweak" /\ current_bank' # current_bank)
           => zero_seen]_vars

C9_Witness ==
    /\ Tweaked
    /\ current_bank # before.current_bank
    /\ before.state = ALTERNATE3
    /\ ~zero_seen

\* C10: in DISABLED a non-zero access changes nothing of the device: not
\* the state, not current_bank, none of the four scratch registers.
C10_DisabledIgnores ==
    (Tweaked /\ before.state = DISABLED /\ offset # 0) => dev = before

C10_Witness ==
    /\ Tweaked
    /\ before.state = DISABLED
    /\ \E k \in 0 .. 3 : offset = slapstic.bank[k] /\ k # current_bank
    /\ state = DISABLED

\* C11: slapstic_tweak returns current_bank as the access left it: the newly
\* selected bank on a finalizing access, the unchanged bank on any other,
\* and always what slapstic_bank returns right afterwards.
C11_TweakReturnsNewBank ==
    Tweaked =>
        /\ result = current_bank
        /\ result = slapstic_bank(dev)
        /\ IF offset # 0 /\ before.state # DISABLED /\ state = DISABLED
           THEN CASE before.state = ENABLED_ST -> slapstic.bank[result] = offset
                  [] before.state = ALTERNATE3 -> result = before.alt_bank
                  [] before.state = BITWISE3   -> result = before.bit_bank
                  [] before.state = ADDITIVE3  -> result = before.add_bank
           ELSE result = before.current_bank

C11_Witness ==
    /\ Tweaked
    /\ before.state = ADDITIVE3
    /\ state = DISABLED
    /\ result # before.current_bank
    /\ result = add_bank

\* C12: in every state reached from reset current_bank is in 0..3, and so is
\* the latched bank a finalization would copy into it: alt_bank in
\* ALTERNATE3, bit_bank in BITWISE3, add_bank in ADDITIVE3.
C12_BanksInRange ==
    /\ current_bank \in 0 .. 3
    /\ state = ALTERNATE3 => alt_bank \in 0 .. 3
    /\ state = BITWISE3 => bit_bank \in 0 .. 3
    /\ state = ADDITIVE3 => add_bank \in 0 .. 3

C12_Witness ==
    /\ Tweaked
    /\ before.state = ADDITIVE2
    /\ before.add_bank = 3
    /\ state = ADDITIVE3
    /\ add_bank = 0

\* the CPU states an access at off to the device d can meet: alt2_kludge
\* reads the CPU only on the accesses that reach it
CpuChoices(d, off) ==
    IF CallsKludge(d, slapstic, off) THEN CpuStatesOf[m_chipnum] ELSE {NoCpu}

\* what an access at off to the device d can give: the device it leaves
\* and the bank it returns
AccessOutcomes(d, off) ==
    { LET d1 == slapstic_tweak(d, slapstic, access_68k, c, off)
      IN  <<d1, tweak_return(d, d1)>> : c \in CpuChoices(d, off) }

\* C13: slapstic_bank is read-only: in whatever state it is called it
\* returns current_bank and leaves state, current_bank and every scratch
\* register as they were, so the access that follows a query gives the state
\* and the bank it would have given without the query.
C13_BankQueryReadOnly ==
    call = "slapstic_bank" =>
        /\ dev = before
        /\ result = before.current_bank
        /\ \A off \in OffsetsOf[m_chipnum] :
              AccessOutcomes(dev, off) = AccessOutcomes(before, off)

C13_Witness ==
    /\ call = "slapstic_bank"
    /\ state = BITWISE2
    /\ bit_xor = 3
    /\ bit_bank # current_bank
    /\ result = current_bank

\* C14: with access_68k clear (the host is no 68k, nothing decodes the
\* instruction), an access in ENABLED that matches alt2 and none of bit1,
\* add1, alt1 moves the state to ALTERNATE2, never to ENABLED or ALTERNATE3,
\* reads nothing of the CPU and leaves current_bank and the latched banks as
\* they were.
C14_NoAdapterGoesToAlt2 ==
    (Tweaked /\ access_68k = 0 /\ CallsKludge(before, slapstic, offset)) =>
        /\ state = ALTERNATE2
        /\ cpu = NoCpu
        /\ current_bank = before.current_bank
        /\ result = before.current_bank
        /\ dev = [before EXCEPT !.state = ALTERNATE2]

C14_Witness ==
    /\ Tweaked
    /\ access_68k = 0
    /\ before.state = ENABLED_ST
    /\ MATCHES_MASK_VALUE(offset, slapstic.alt2)
    /\ ~MATCHES_MASK_VALUE(offset, slapstic.alt1)
    /\ state = ALTERNATE2
    /\ result = current_bank

\* C15: slapstic_tweak is total: the state is always one of the eleven, and
\* between two calls an access at any offset, with the chip put in any of
\* the eleven states (the ones its table cannot reach included), leaves the
\* chip in one of the eleven states and returns a bank in 0..3.
C15_TweakTotal ==
    /\ state \in States
    /\ Tweaked => result \in 0 .. 3
    /\ Idle =>
          \A s \in States, off \in OffsetsOf[m_chipnum] :
              \A o \in AccessOutcomes([dev EXCEPT !.state = s], off) :
                  /\ o[1].state \in States
                  /\ o[2] \in 0 .. 3

C15_Witness ==
    /\ Tweaked
    /\ offset \in NoiseOffsets
    /\ before.state = BITWISE3
    /\ state = BITWISE3
    /\ dev = before

\* the pairs of the two bank modification families of a table
BitwisePairs(sl) ==
    {sl.bit1, sl.bit2c0, sl.bit2s0, sl.bit2c1, sl.bit2s1, sl.bit3}

AdditivePairs(sl) ==
    {sl.add1, sl.add2, sl.addplus1, sl.addplus2, sl.add3}

\* a family is present when one of its pairs is a real mask/value pair
HasBitwise(sl) == \E p \in BitwisePairs(sl) : p # NO_PAIR

HasAdditive(sl) == \E p \in AdditivePairs(sl) : p # NO_PAIR

ChipsWithBitwise == {n \in ChipNums : HasBitwise(slapstic_table[n])}

ChipsWithAdditive == {n \in ChipNums : HasAdditive(slapstic_table[n])}

\* C16: every chip of slapstic_table has exactly one of the bitwise and the
\* additive family, never both and never neither; accordingly a chip is
\* only ever found in the BITWISE or ADDITIVE states of the family it has.
C16_OneTwiddleFamily ==
    /\ ChipsWithBitwise \cup ChipsWithAdditive = ChipNums
    /\ ChipsWithBitwise \cap ChipsWithAdditive = {}
    /\ state \in {BITWISE1, BITWISE2, BITWISE3} =>
          m_chipnum \in ChipsWithBitwise \ ChipsWithAdditive
    /\ state \in {ADDITIVE1, ADDITIVE2, ADDITIVE3} =>
          m_chipnum \in ChipsWithAdditive \ ChipsWithBitwise

C16_Witness ==
    /\ Tweaked
    /\ m_chipnum = 111
    /\ before.state = ADDITIVE1
    /\ state = ADDITIVE2
    /\ m_chipnum \notin ChipsWithBitwise

\* the part the FAQ names as functionally identical to a part
Twin == (103 :> 110) @@ (110 :> 103) @@ (106 :> 109) @@ (109 :> 106)

\* the offsets and the CPU states tried on a part and its twin
TwinOffsets == [n \in DOMAIN Twin |-> OffsetsOf[n] \cup OffsetsOf[Twin[n]]]

TwinCpuStates ==
    [n \in DOMAIN Twin |-> CpuStatesOf[n] \cup CpuStatesOf[Twin[n]]]

\* C17: chips 103 and 110, and chips 106 and 109, behave alike: from every
\* device state either of them reaches after reset, a reset and an access at
\* any offset, under any CPU state, give the same device and return the same
\* bank whichever of the two tables is in use.  Both start from the same
\* device, so by induction every access sequence takes both through the same
\* states and returns the same banks.
C17_TwinChipsAgree ==
    (Idle /\ m_chipnum \in DOMAIN Twin) =>
        LET t  == Twin[m_chipnum]
            sn == slapstic_table[m_chipnum]
            st == slapstic_table[t]
        IN  /\ sn.bankstart = st.bankstart
            /\ slapstic_reset(dev, sn) = slapstic_reset(dev, st)
            /\ \A off \in TwinOffsets[m_chipnum] :
                  \A c \in IF \/ CallsKludge(dev, sn, off)
                              \/ CallsKludge(dev, st, off)
                           THEN TwinCpuStates[m_chipnum]
                           ELSE {NoCpu} :
                      LET dn == slapstic_tweak(dev, sn, access_68k, c, off)
                          dt == slapstic_tweak(dev, st, access_68k, c, off)
                      IN  /\ dn = dt
                          /\ tweak_return(dev, dn) = tweak_return(dev, dt)

C17_Witness ==
    /\ call = "none"
    /\ m_chipnum = 110
    /\ state = BITWISE3
    /\ bit_bank # current_bank

\* the offset of the access matches the pair p of the chip's table
Hits(p) == MATCHES_MASK_VALUE(offset, p)

\* C18: in ENABLED a non-zero offset is tested against bit1, then add1, then
\* alt1, then alt2, then the four bank offsets, and only the first match
\* acts: bit1 gives BITWISE1 even when alt1 matches too (0x35bd on chip 105,
\* 0x3dab on chip 106), add1 gives ADDITIVE1, alt1 gives ALTERNATE1, alt2
\* gives what alt2_kludge decides without touching the bank, bank[k] selects
\* bank k and disables, and an offset matching none of them changes nothing.
C18_EnabledPriority ==
    (Tweaked /\ before.state = ENABLED_ST /\ offset # 0) =>
        /\ IF Hits(slapstic.bit1)
           THEN dev = [before EXCEPT !.state = BITWISE1]
           ELSE IF Hits(slapstic.add1)
           THEN dev = [before EXCEPT !.state = ADDITIVE1]
           ELSE IF Hits(slapstic.alt1)
           THEN dev = [before EXCEPT !.state = ALTERNATE1]
           ELSE IF Hits(slapstic.alt2)
           THEN /\ state \in {ALTERNATE2, ALTERNATE3, ENABLED_ST}
                /\ current_bank = before.current_bank
                /\ bit_bank = before.bit_bank
                /\ add_bank = before.add_bank
                /\ bit_xor = before.bit_xor
           ELSE IF IsBankOffset(slapstic, offset)
           THEN /\ slapstic.bank[current_bank] = offset
                /\ \A k \in 0 .. 3 :
                      slapstic.bank[k] = offset => current_bank <= k
                /\ dev = [before EXCEPT !.state = DISABLED,
                                        !.current_bank = current_bank]
           ELSE dev = before
        /\ (m_chipnum = 105 /\ offset = \H35bd) =>
              Hits(slapstic.bit1) /\ Hits(slapstic.alt1) /\ state = BITWISE1
        /\ (m_chipnum = 106 /\ offset = \H3dab) =>
              Hits(slapstic.bit1) /\ Hits(slapstic.alt1) /\ state = BITWISE1

C18_Witness ==
    /\ Tweaked
    /\ m_chipnum = 105
    /\ offset = \H35bd
    /\ before.state = ENABLED_ST
    /\ Hits(slapstic.alt1)
    /\ state = BITWISE1

\* the second offset C18 names is tried as well
C18_WitnessChip106 ==
    /\ Tweaked
    /\ m_chipnum = 106
    /\ offset = \H3dab
    /\ before.state = ENABLED_ST
    /\ state = BITWISE1

\* C19: in BITWISE1 an access to any of the four bank offsets moves to
\* BITWISE2 with bit_bank set to current_bank, which is the bank selected
\* before the sequence and not the index of the bank offset accessed, and
\* with bit_xor cleared; any other non-zero access leaves the chip in
\* BITWISE1 with current_bank, and everything else, unchanged.
C19_Bitwise1LatchesOldBank ==
    (Tweaked /\ before.state = BITWISE1 /\ offset # 0) =>
        IF IsBankOffset(slapstic, offset)
        THEN /\ state = BITWISE2
             /\ bit_bank = before.current_bank
             /\ bit_xor = 0
             /\ current_bank = before.current_bank
             /\ dev = [before EXCEPT !.state = BITWISE2,
                                     !.bit_bank = before.current_bank,
                                     !.bit_xor = 0]
        ELSE /\ state = BITWISE1
             /\ current_bank = before.current_bank
             /\ dev = before

C19_Witness ==
    /\ Tweaked
    /\ before.state = BITWISE1
    /\ before.bit_xor = 3
    /\ before.bit_bank # before.current_bank
    /\ IsBankOffset(slapstic, offset)
    /\ slapstic.bank[before.current_bank] # offset
    /\ state = BITWISE2
    /\ bit_bank = current_bank
    /\ bit_xor = 0

\* the twiddle an access at off performs in BITWISE2 when the xor latch
\* holds x: the first of clear0, set0, clear1, set1 that off ^ x matches
TwiddleOp(sl, x, off) ==
    IF MATCHES_MASK_VALUE(BitXor(off, x), sl.bit2c0) THEN "clear0"
    ELSE IF MATCHES_MASK_VALUE(BitXor(off, x), sl.bit2s0) THEN "set0"
    ELSE IF MATCHES_MASK_VALUE(BitXor(off, x), sl.bit2c1) THEN "clear1"
    ELSE IF MATCHES_MASK_VALUE(BitXor(off, x), sl.bit2s1) THEN "set1"
    ELSE "none"

\* the opposite operation on the other bank bit
OtherBitOpposite ==
    [op \in {"clear0", "set0", "clear1", "set1"} |->
        CASE op = "clear0" -> "set1"
          [] op = "set0"   -> "clear1"
          [] op = "clear1" -> "set0"
          [] op = "set1"   -> "clear0"]

\* the latched bank b after a twiddle
Twiddled(op, b) ==
    CASE op = "clear0" -> BitClear(b, 1)
      [] op = "set0"   -> BitOr(b, 1)
      [] op = "clear1" -> BitClear(b, 2)
      [] op = "set1"   -> BitOr(b, 2)

\* C20: bit_xor is always 0 or 3.  In BITWISE2 an access whose offset,
\* xored with bit_xor, matches a twiddle pair (clear0, set0, clear1, set1,
\* first match only) performs that twiddle on bit_bank and flips bit_xor
\* between 0 and 3 without changing state or current_bank; the next access
\* to the same offset then acts as the opposite operation on the other bank
\* bit.  An access matching no twiddle pair leaves bit_xor and bit_bank alone.
C20_Bitwise2ToggleLatch ==
    /\ bit_xor \in {0, 3}
    /\ (Tweaked /\ before.state = BITWISE2 /\ offset # 0) =>
          LET op == TwiddleOp(slapstic, before.bit_xor, offset)
          IN  IF op # "none"
              THEN /\ bit_xor = 3 - before.bit_xor
                   /\ bit_bank = Twiddled(op, before.bit_bank)
                   /\ state = BITWISE2
                   /\ current_bank = before.current_bank
                   /\ TwiddleOp(slapstic, bit_xor, offset)
                          = OtherBitOpposite[op]
                   /\ slapstic_tweak(dev, slapstic, access_68k, NoCpu, offset)
                          = [dev EXCEPT
                               !.bit_bank =
                                   Twiddled(OtherBitOpposite[op], bit_bank),
                               !.bit_xor = before.bit_xor]
              ELSE /\ bit_xor = before.bit_xor
                   /\ bit_bank = before.bit_bank
                   /\ current_bank = before.current_bank

C20_Witness ==
    /\ Tweaked
    /\ before.state = BITWISE2
    /\ before.bit_xor = 3
    /\ TwiddleOp(slapstic, 0, offset) = "clear0"
    /\ TwiddleOp(slapstic, 3, offset) = "set1"
    /\ before.bit_bank = 0
    /\ bit_bank = 2
    /\ bit_xor = 0
    /\ state = BITWISE2

\* what the additive sequence followed so far sums to
AddSum == (add_base + add_n1 + 2 * add_n2) % 4

\* C21: on a chip with the additive family the sequence 0, add1, add2,
\* accesses made in ADDITIVE2 of which the last matches add3, a bank offset
\* goes through ADDITIVE1, ADDITIVE2 and ADDITIVE3 and ends DISABLED with
\* current_bank = (B + n1 + 2 * n2) mod 4, B the bank when the sequence
\* began and n1, n2 the numbers of accesses made in ADDITIVE2, the escape
\* included, that matched addplus1 and addplus2.
C21_AdditiveSum ==
    /\ add_ph = 1 => state = ENABLED_ST /\ current_bank = add_base
    /\ add_ph = 2 => state = ADDITIVE1 /\ current_bank = add_base
    /\ add_ph = 3 =>
          state = ADDITIVE2 /\ current_bank = add_base /\ add_bank = AddSum
    /\ add_ph = 4 =>
          state = ADDITIVE3 /\ current_bank = add_base /\ add_bank = AddSum
    /\ add_ph = 5 =>
          /\ state = DISABLED
          /\ current_bank = AddSum
          /\ Tweaked => result = AddSum
    /\ add_ph \in 2 .. 5 => HasAdditive(slapstic)

C21_Witness ==
    /\ add_ph = 5
    /\ add_base = 3
    /\ add_n1 = 3
    /\ add_n2 = 1
    /\ state = DISABLED
    /\ current_bank = 0

\* C22: the tests of ADDITIVE2 do not exclude one another: an access
\* matching addplus1 adds 1 to add_bank, one matching addplus2 adds 2, one
\* matching both (0x285d on chip 111) adds 3, all modulo 4, and the state
\* stays ADDITIVE2 unless the offset matches add3 too.
C22_Additive2NonExclusive ==
    (Tweaked /\ before.state = ADDITIVE2 /\ offset # 0) =>
        LET p1 == IF Hits(slapstic.addplus1) THEN 1 ELSE 0
            p2 == IF Hits(slapstic.addplus2) THEN 2 ELSE 0
        IN  /\ add_bank = (before.add_bank + p1 + p2) % 4
            /\ (p1 = 1 /\ p2 = 2) => add_bank = (before.add_bank + 3) % 4
            /\ state = IF Hits(slapstic.add3) THEN ADDITIVE3 ELSE ADDITIVE2
            /\ current_bank = before.current_bank
            /\ (m_chipnum = 111 /\ offset = \H285d) =>
                  /\ p1 = 1
                  /\ p2 = 2
                  /\ state = ADDITIVE2

C22_Witness ==
    /\ Tweaked
    /\ m_chipnum = 111
    /\ offset = \H285d
    /\ before.state = ADDITIVE2
    /\ before.add_bank = 2
    /\ add_bank = 1
    /\ state = ADDITIVE2

\* every offset the 14 address lines can carry that matches the additive
\* escape pair of chip 117
Escapes117 ==
    {off \in 0 .. OffsetLimit - 1 :
        MATCHES_MASK_VALUE(off, slapstic_table[117].add3)}

\* the sequence C23 names is an additive sequence of chip 117 whose only
\* access in ADDITIVE2 is the escape, matching addplus1 and not addplus2
Example117 ==
    /\ MATCHES_MASK_VALUE(\H0676, slapstic_table[117].add1)
    /\ MATCHES_MASK_VALUE(\H0677, slapstic_table[117].add2)
    /\ MATCHES_MASK_VALUE(\H1a42, slapstic_table[117].add3)
    /\ MATCHES_MASK_VALUE(\H1a42, slapstic_table[117].addplus1)
    /\ ~MATCHES_MASK_VALUE(\H1a42, slapstic_table[117].addplus2)

\* C23: on chip 117 the only offset matching add3 is 0x1a42, which matches
\* addplus1 as well, so the access that moves ADDITIVE2 to ADDITIVE3 adds 1
\* to add_bank; the sequence 0, 0x0676, 0x0677, 0x1a42, a bank offset ends
\* with current_bank one more (modulo 4) than before, and no additive
\* sequence on chip 117 finalizes without a match of addplus1.
C23_Chip117EscapeBumps ==
    /\ Escapes117 = {\H1a42}
    /\ Example117
    /\ m_chipnum = 117 =>
          /\ (Tweaked /\ before.state = ADDITIVE2 /\ state = ADDITIVE3) =>
                /\ offset = \H1a42
                /\ add_bank = (before.add_bank + 1) % 4
          /\ add_ph \in {4, 5} => add_n1 >= 1
          /\ (add_ph = 5 /\ add_n1 = 1 /\ add_n2 = 0) =>
                current_bank = (add_base + 1) % 4

C23_Witness ==
    /\ Tweaked
    /\ m_chipnum = 117
    /\ add_ph = 5
    /\ add_n1 = 1
    /\ add_n2 = 0
    /\ add_base = 3
    /\ current_bank = 0
    /\ state = DISABLED

\* C24: in ALTERNATE3 a non-zero access that does not match alt4 leaves the
\* state, alt_bank and current_bank (the whole device) as they were, however
\* many such accesses are made; an access matching alt4 disables the chip
\* and sets current_bank to alt_bank, which is therefore still the value
\* latched when ALTERNATE3 was entered.
C24_Alt3Waits ==
    (Tweaked /\ before.state = ALTERNATE3 /\ offset # 0) =>
        IF Hits(slapstic.alt4)
        THEN /\ state = DISABLED
             /\ current_bank = before.alt_bank
             /\ result = before.alt_bank
             /\ dev = [before EXCEPT !.state = DISABLED,
                                     !.current_bank = before.alt_bank]
        ELSE /\ state = ALTERNATE3
             /\ alt_bank = before.alt_bank
             /\ current_bank = before.current_bank
             /\ dev = before

C24_Witness ==
    /\ Tweaked
    /\ before.state = ALTERNATE3
    /\ offset # 0
    /\ ~Hits(slapstic.alt4)
    /\ Hits(slapstic.alt1)
    /\ state = ALTERNATE3
    /\ alt_bank # current_bank

\* the access that ends the wait
C24_WitnessFinal ==
    /\ Tweaked
    /\ before.state = ALTERNATE3
    /\ Hits(slapstic.alt4)
    /\ before.alt_bank # before.current_bank
    /\ state = DISABLED
    /\ current_bank = before.alt_bank

\* C25: with access_68k set, an access in ENABLED that matches alt2 and none
\* of bit1, add1, alt1 gives ALTERNATE3 with alt_bank = (r >> altshift) & 3
\* exactly when pc >> 1 matches alt1, the opcode at pcbase masked with
\* 0xf1f8 is 0x3090 or 0xb148, and r, half the address register numbered
\* (opcode >> 9) & 7, matches alt3; in every other case it gives ENABLED.
\* Either way current_bank and the other latched banks are unchanged.
C25_KludgeDecision ==
    (Tweaked /\ access_68k # 0 /\ CallsKludge(before, slapstic, offset)) =>
        LET r == ShiftRight(cpu.areg[BitAnd(ShiftRight(cpu.opcode, 9), 7)], 1)
            decoded ==
                /\ MATCHES_MASK_VALUE(ShiftRight(cpu.pc, 1), slapstic.alt1)
                /\ BitAnd(cpu.opcode, \Hf1f8) \in {\H3090, \Hb148}
                /\ MATCHES_MASK_VALUE(r, slapstic.alt3)
        IN  /\ cpu.pc # -1
            /\ IF decoded
               THEN dev = [before EXCEPT
                             !.state = ALTERNATE3,
                             !.alt_bank =
                                 BitAnd(ShiftRight(r, slapstic.altshift), 3)]
               ELSE dev = [before EXCEPT !.state = ENABLED_ST]
            /\ current_bank = before.current_bank
            /\ result = before.current_bank

\* cmpm.w (A0)+,(A1)+ : the register read is A1, which holds another value
\* than A0
C25_Witness ==
    /\ Tweaked
    /\ access_68k # 0
    /\ before.state = ENABLED_ST
    /\ Hits(slapstic.alt2)
    /\ cpu.opcode = \Hb348
    /\ cpu.areg[0] # cpu.areg[1]
    /\ ~MATCHES_MASK_VALUE(ShiftRight(cpu.areg[0], 1), slapstic.alt3)
    /\ state = ALTERNATE3
    /\ alt_bank = 2
    /\ before.alt_bank # 2

\* the pc matches but the instruction is none of the two: back to ENABLED
C25_WitnessEnabled ==
    /\ Tweaked
    /\ access_68k # 0
    /\ before.state = ENABLED_ST
    /\ Hits(slapstic.alt2)
    /\ cpu.opcode = \H4e71
    /\ state = ENABLED_ST

\* the bank offsets of chip n are non-zero, differ from one another and
\* match none of the triggers tested before them in ENABLED
BanksSelectable(n) ==
    LET sl == slapstic_table[n]
    IN  \A k \in 0 .. 3 :
            /\ sl.bank[k] # 0
            /\ \A j \in 0 .. 3 : sl.bank[j] = sl.bank[k] => j = k
            /\ ~MATCHES_MASK_VALUE(sl.bank[k], sl.bit1)
            /\ ~MATCHES_MASK_VALUE(sl.bank[k], sl.add1)
            /\ ~MATCHES_MASK_VALUE(sl.bank[k], sl.alt1)
            /\ ~MATCHES_MASK_VALUE(sl.bank[k], sl.alt2)

ChipsSelectable == {n \in ChipNums : BanksSelectable(n)}

\* the device after the two accesses 0 and bank[k] made on the device d,
\* under every CPU state the second access can meet
Recovered(d, k) ==
    LET d1 == slapstic_tweak(d, slapstic, access_68k, NoCpu, 0)
    IN  { o[1] : o \in AccessOutcomes(d1, slapstic.bank[k]) }

\* C26: on every chip, from every state an access sequence reaches, the
\* two accesses 0 and bank[k] leave the chip DISABLED with current_bank = k,
\* for every k in 0..3; the bank offsets of every chip are non-zero,
\* pairwise distinct and match none of bit1, add1, alt1, alt2.
C26_Recoverable ==
    /\ ChipsSelectable = ChipNums
    /\ \A k \in 0 .. 3 :
          \A d \in Recovered(dev, k) :
              d.state = DISABLED /\ d.current_bank = k
    /\ (Tweaked /\ offset = 0) => state = ENABLED_ST
    /\ (Tweaked /\ before.state = ENABLED_ST /\ offset # 0) =>
          \A k \in 0 .. 3 :
              offset = slapstic.bank[k] =>
                  state = DISABLED /\ current_bank = k /\ result = k

C26_Witness ==
    /\ Tweaked
    /\ offset = 0
    /\ before.state = BITWISE2
    /\ before.bit_bank # before.current_bank
    /\ state = ENABLED_ST
    /\ \A k \in 0 .. 3 :
          \E d \in Recovered(before, k) : d.current_bank = k

\* the second access of the pair
C26_WitnessBank ==
    /\ Tweaked
    /\ before.state = ENABLED_ST
    /\ offset = slapstic.bank[2]
    /\ before.current_bank # 2
    /\ before.add_bank # before.current_bank
    /\ state = DISABLED
    /\ current_bank = 2

\* the devices the four bank offsets leave when accessed on the device d
Finalized(d) ==
    { slapstic_tweak(d, slapstic, access_68k, NoCpu, slapstic.bank[k]) :
        k \in 0 .. 3 }

\* C27: in BITWISE3 (resp. ADDITIVE3) an access to any of the four bank
\* offsets disables the chip and sets current_bank to bit_bank (resp.
\* add_bank), whichever of the four it is: the four possible final accesses
\* leave one and the same device.  Any other non-zero access changes nothing.
C27_TwiddleFinalIgnoresIndex ==
    /\ (Tweaked /\ before.state = BITWISE3 /\ offset # 0) =>
          IF IsBankOffset(slapstic, offset)
          THEN dev = [before EXCEPT !.state = DISABLED,
                                    !.current_bank = before.bit_bank]
          ELSE dev = before
    /\ (Tweaked /\ before.state = ADDITIVE3 /\ offset # 0) =>
          IF IsBankOffset(slapstic, offset)
          THEN dev = [before EXCEPT !.state = DISABLED,
                                    !.current_bank = before.add_bank]
          ELSE dev = before
    /\ state = BITWISE3 =>
          Finalized(dev) = {[dev EXCEPT !.state = DISABLED,
                                        !.current_bank = bit_bank]}
    /\ state = ADDITIVE3 =>
          Finalized(dev) = {[dev EXCEPT !.state = DISABLED,
                                        !.current_bank = add_bank]}

C27_Witness ==
    /\ Tweaked
    /\ before.state = ADDITIVE3
    /\ IsBankOffset(slapstic, offset)
    /\ slapstic.bank[before.add_bank] # offset
    /\ before.add_bank # before.current_bank
    /\ state = DISABLED
    /\ current_bank = before.add_bank

\* the same in BITWISE3
C27_WitnessBitwise ==
    /\ Tweaked
    /\ before.state = BITWISE3
    /\ IsBankOffset(slapstic, offset)
    /\ slapstic.bank[before.bit_bank] # offset
    /\ before.bit_bank # before.current_bank
    /\ state = DISABLED
    /\ current_bank = before.bit_bank

\* the offsets the 14 address lines can carry that an absent pair matches
AbsentPairHits ==
    {off \in 0 .. OffsetLimit - 1 : MATCHES_MASK_VALUE(off, NO_PAIR)}

\* C28: a family a chip lacks is never entered: chips 111-118 have no
\* bitwise family and are never in BITWISE1, BITWISE2 or BITWISE3, chips
\* 101-110 have no additive family and are never in ADDITIVE1, ADDITIVE2 or
\* ADDITIVE3, because an absent pair matches no offset.
C28_AbsentFamilyUnreachable ==
    /\ AbsentPairHits = {}
    /\ ChipsWithAdditive = 111 .. 118
    /\ ChipsWithBitwise = ChipNums \ (111 .. 118)
    /\ ChipsWithBitwise \subseteq 101 .. 110
    /\ m_chipnum \in 111 .. 118 =>
          /\ state \notin {BITWISE1, BITWISE2, BITWISE3}
          /\ \A p \in BitwisePairs(slapstic) : p = NO_PAIR
          /\ Tweaked => \A p \in BitwisePairs(slapstic) : ~Hits(p)
    /\ m_chipnum \in 101 .. 110 =>
          /\ state \notin {ADDITIVE1, ADDITIVE2, ADDITIVE3}
          /\ \A p \in AdditivePairs(slapstic) : p = NO_PAIR
          /\ Tweaked => \A p \in AdditivePairs(slapstic) : ~Hits(p)

\* an access made in ENABLED on a chip without the bitwise family goes past
\* the bit1 test and enters the additive sequence
C28_Witness ==
    /\ Tweaked
    /\ m_chipnum = 114
    /\ before.state = ENABLED_ST
    /\ offset # 0
    /\ slapstic.bit1 = NO_PAIR
    /\ state = ADDITIVE1

\* the chips all four bank offsets of which match the fourth alternate pair
ChipsAlt4Banks ==
    {n \in ChipNums :
        \A k \in 0 .. 3 :
            MATCHES_MASK_VALUE(slapstic_table[n].bank[k],
                               slapstic_table[n].alt4)}

\* C29: on every chip each of the four bank offsets matches alt4, so an
\* access to bank[k] in ALTERNATE3 ends the alternate sequence with
\* current_bank = alt_bank, the bits latched from the third alternate
\* offset, and not with k.
C29_Alt3FinalByBankOffsets ==
    /\ ChipsAlt4Banks = ChipNums
    /\ (Tweaked /\ before.state = ALTERNATE3
               /\ IsBankOffset(slapstic, offset)) =>
          /\ Hits(slapstic.alt4)
          /\ state = DISABLED
          /\ current_bank = before.alt_bank
          /\ result = before.alt_bank
    /\ state = ALTERNATE3 =>
          Finalized(dev) = {[dev EXCEPT !.state = DISABLED,
                                        !.current_bank = alt_bank]}

C29_Witness ==
    /\ Tweaked
    /\ before.state = ALTERNATE3
    /\ IsBankOffset(slapstic, offset)
    /\ slapstic.bank[before.alt_bank] # offset
    /\ before.alt_bank # before.current_bank
    /\ state = DISABLED
    /\ current_bank = before.alt_bank
=============================================================================
